---- MODULE Spec2Model ----
(***************************************************************************)
(* Tackle-metric pipeline of nfl_bdb24.py:                                 *)
(*   _get_tackle_components_vs_time  (gap series of carrier and tackler)   *)
(*   _get_tackle_window_data         (tackle frame and contact frame)      *)
(*   prep_get_tackle_metrics         (the per-play metrics record)         *)
(* and the direction normalisation of nflutil.py:                          *)
(*   transform_tracking_data         (mirror of the plays moving left)     *)
(*                                                                         *)
(* Numbers.  TLC has 32-bit integers and no reals.  The tracking columns   *)
(* x, y, dis of the pipeline are in steps of 1/64 yard: such numbers, their *)
(* differences, squares and sums of two squares are exact as floats, and   *)
(* np.sqrt rounds correctly, so the float gap of two frames compares as    *)
(* the radicands do.  The gap column holds that radicand,                  *)
(* (x - x_t)^2 + (y - y_t)^2 in steps^2: the float gap is sqrt(gap) / 64   *)
(* yards.  The detector's three tests (gap < 3, max(1.8, min), gap <=      *)
(* threshold + 1e-5) are decided on radicands, exactly.  s is in 0.01      *)
(* yard/s, dir in whole degrees.  The lengths of the record (gap_tackle,   *)
(* d_actual, d_ideal) are in micro-yards and s_downfield in micro-yards/s, *)
(* d_eff is a ratio with six decimals; roots, sines and quotients are      *)
(* rounded to that resolution, and no test of the code reads them except   *)
(* d_actual == 0.                                                          *)
(*                                                                         *)
(* A DataFrame is a sequence of rows (records); row order is the order of  *)
(* the sequence, which is what .iloc[0] reads.                             *)
(***************************************************************************)
EXTENDS Integers, Sequences, FiniteSets

VARIABLES track_df, tackle_df, comp_df, window, record, out_df, given_df,
          pc, err

\* given_df is the caller's copy of the table as it was handed over
vars == <<track_df, tackle_df, comp_df, window, record, out_df, given_df,
          pc, err>>

(***************************************************************************)
(* Units and the program's literals                                        *)
(***************************************************************************)
\* micro-yards in one yard
Yard == 1000 * 1000

\* steps of the tracking columns x, y, dis in one yard
GRID == 64

\* micro-yards in one step
GridStep == Yard \div GRID

\* nfl_bdb24.py:33 and :158, "tackle_frame_id - 30", "contact_frame_id - 30"
WINDOW_FRAMES == 30

\* nfl_bdb24.py:41, "gap_at_first_contact < 3": the radicand of 3 yards
FIRST_CONTACT_GAP == (3 * GRID) * (3 * GRID)

\* nfl_bdb24.py:47 and :55, "max(1.8, min_gap)".  1.8 yards is 115.2 steps,
\* radicand 13271.04.  No whole radicand lies between 13271 and 13271.04,
\* nor up to 13271.19, which is 1.8 + 1e-5 yards: 13271 stands for 1.8 yards
\* in the max() and in the tolerance test.
WRAP_UP_GAP == ((18 * GRID) * (18 * GRID)) \div 100

\* nfl_bdb24.py:49 and :57, "gap_for_contact + 1e-5": 1e-5 is 1 / 100000
GAP_EPS_INV == 100000

\* the null event of a frame without a label
NA == "NA"

(***************************************************************************)
(* Arithmetic helpers                                                      *)
(***************************************************************************)
\* Python's max(a, b) on two numbers
Max(a, b) == IF b > a THEN b ELSE a

RECURSIVE SeqMin(_)
\* Series.min() of a non-empty sequence of numbers
SeqMin(s) ==
    IF Len(s) = 1 THEN s[1]
    ELSE LET m == SeqMin(Tail(s)) IN IF s[1] < m THEN s[1] ELSE m

RECURSIVE SeqSum(_)
\* Series.sum(); the sum of no rows is 0
SeqSum(s) == IF s = <<>> THEN 0 ELSE s[1] + SeqSum(Tail(s))

RECURSIVE InsertByFrameId(_, _)
InsertByFrameId(r, s) ==
    IF s = <<>> THEN <<r>>
    ELSE IF r.frameId < s[1].frameId THEN <<r>> \o s
    ELSE <<s[1]>> \o InsertByFrameId(r, Tail(s))

RECURSIVE SortByFrameId(_)
\* DataFrame.sort_values('frameId', ascending=True)
SortByFrameId(s) ==
    IF s = <<>> THEN <<>> ELSE InsertByFrameId(s[1], SortByFrameId(Tail(s)))

\* the column `col` of a frame, as a sequence in row order
Column(df, col) == [i \in 1..Len(df) |-> df[i][col]]

RECURSIVE IsqrtBetween(_, _, _)
\* the largest r in lo..hi with r*r <= n, by bisection (hi < 46341)
IsqrtBetween(n, lo, hi) ==
    IF lo = hi THEN lo
    ELSE LET mid == (lo + hi + 1) \div 2
         IN IF mid * mid <= n THEN IsqrtBetween(n, mid, hi)
            ELSE IsqrtBetween(n, lo, mid - 1)

(***************************************************************************)
(* float64 arithmetic of the tolerance test (nfl_bdb24.py:49 and :57)      *)
(*                                                                         *)
(* "gap <= gap_for_contact + 1e-5" compares two float64 numbers: the gap   *)
(* of the row, np.sqrt(...) of line 123, and the rounded sum of the        *)
(* threshold and the float64 nearest 1e-5.  A float64 is a record          *)
(* [m, e] for m * 2^e with 2^52 <= m < 2^53, and m, too wide for an        *)
(* integer, is a sequence of LIMBS limbs below BASE, least first.          *)
(***************************************************************************)
\* bits of one limb
LIMB_BITS == 14

BASE == 2^LIMB_BITS

\* limbs of a wide number: 98 bits
LIMBS == 7

\* bits of the significand of a float64
SIGNIFICAND == 53

\* an integer n >= 0 as a wide number
BigOf(n) == <<n % BASE, (n \div BASE) % BASE, n \div (BASE * BASE), 0, 0, 0, 0>>

\* the limb i of 2^n
Pow2Limb(n, i) == IF i = n \div LIMB_BITS + 1 THEN 2^(n % LIMB_BITS) ELSE 0

\* 2^n as a wide number
BigPow2(n) ==
    <<Pow2Limb(n, 1), Pow2Limb(n, 2), Pow2Limb(n, 3), Pow2Limb(n, 4),
      Pow2Limb(n, 5), Pow2Limb(n, 6), Pow2Limb(n, 7)>>

BigIsZero(x) == \A i \in 1..LIMBS : x[i] = 0

\* the limb i of x, 0 beyond its limbs
Limb(x, i) == IF i \in 1..LIMBS THEN x[i] ELSE 0

\* the limbs of the carried sums v1, ..., v7
Limbs(v1, v2, v3, v4, v5, v6, v7) ==
    <<v1 % BASE, v2 % BASE, v3 % BASE, v4 % BASE, v5 % BASE, v6 % BASE, v7 % BASE>>

\* x * c + n for c, n in 0..BASE, limb by limb with the carry
BigMulAdd(x, c, n) ==
    LET v1 == x[1] * c + n
        v2 == x[2] * c + v1 \div BASE
        v3 == x[3] * c + v2 \div BASE
        v4 == x[4] * c + v3 \div BASE
        v5 == x[5] * c + v4 \div BASE
        v6 == x[6] * c + v5 \div BASE
        v7 == x[7] * c + v6 \div BASE
    IN Limbs(v1, v2, v3, v4, v5, v6, v7)

BigAdd(x, y) ==
    LET v1 == x[1] + y[1]
        v2 == x[2] + y[2] + v1 \div BASE
        v3 == x[3] + y[3] + v2 \div BASE
        v4 == x[4] + y[4] + v3 \div BASE
        v5 == x[5] + y[5] + v4 \div BASE
        v6 == x[6] + y[6] + v5 \div BASE
        v7 == x[7] + y[7] + v6 \div BASE
    IN Limbs(v1, v2, v3, v4, v5, v6, v7)

\* x - y for x >= y, limb by limb with the borrow
BigSub(x, y) ==
    LET v1 == x[1] - y[1]
        v2 == x[2] - y[2] - (IF v1 < 0 THEN 1 ELSE 0)
        v3 == x[3] - y[3] - (IF v2 < 0 THEN 1 ELSE 0)
        v4 == x[4] - y[4] - (IF v3 < 0 THEN 1 ELSE 0)
        v5 == x[5] - y[5] - (IF v4 < 0 THEN 1 ELSE 0)
        v6 == x[6] - y[6] - (IF v5 < 0 THEN 1 ELSE 0)
        v7 == x[7] - y[7] - (IF v6 < 0 THEN 1 ELSE 0)
    IN Limbs(v1 + BASE, v2 + BASE, v3 + BASE, v4 + BASE, v5 + BASE, v6 + BASE,
             v7 + BASE)

\* x < y: decided at the highest limb where they differ
BigLess(x, y) ==
    /\ \E i \in 1..LIMBS : x[i] # y[i]
    /\ LET h == CHOOSE i \in 1..LIMBS :
                    x[i] # y[i] /\ \A j \in (i + 1)..LIMBS : x[j] = y[j]
       IN x[h] < y[h]

\* the limb i of x * 2^n for n = LIMB_BITS * limbs + bits, bits < LIMB_BITS
ShlLimb(x, limbs, bits, i) ==
    ((Limb(x, i - limbs) * 2^bits) % BASE)
        + (Limb(x, i - limbs - 1) \div 2^(LIMB_BITS - bits))

\* x * 2^n
BigShl(x, n) ==
    <<ShlLimb(x, n \div LIMB_BITS, n % LIMB_BITS, 1),
      ShlLimb(x, n \div LIMB_BITS, n % LIMB_BITS, 2),
      ShlLimb(x, n \div LIMB_BITS, n % LIMB_BITS, 3),
      ShlLimb(x, n \div LIMB_BITS, n % LIMB_BITS, 4),
      ShlLimb(x, n \div LIMB_BITS, n % LIMB_BITS, 5),
      ShlLimb(x, n \div LIMB_BITS, n % LIMB_BITS, 6),
      ShlLimb(x, n \div LIMB_BITS, n % LIMB_BITS, 7)>>

\* the limb i of x \div 2^n for n = LIMB_BITS * limbs + bits, bits < LIMB_BITS
ShrLimb(x, limbs, bits, i) ==
    (Limb(x, i + limbs) \div 2^bits)
        + (Limb(x, i + limbs + 1) % 2^bits) * 2^(LIMB_BITS - bits)

\* x \div 2^n, and whether a set bit was shifted out or `sticky` held before
BigShr(x, n, sticky) ==
    [quot   |-> <<ShrLimb(x, n \div LIMB_BITS, n % LIMB_BITS, 1),
                  ShrLimb(x, n \div LIMB_BITS, n % LIMB_BITS, 2),
                  ShrLimb(x, n \div LIMB_BITS, n % LIMB_BITS, 3),
                  ShrLimb(x, n \div LIMB_BITS, n % LIMB_BITS, 4),
                  ShrLimb(x, n \div LIMB_BITS, n % LIMB_BITS, 5),
                  ShrLimb(x, n \div LIMB_BITS, n % LIMB_BITS, 6),
                  ShrLimb(x, n \div LIMB_BITS, n % LIMB_BITS, 7)>>,
     sticky |-> \/ sticky
                \/ \E i \in 1..LIMBS :
                       \/ i * LIMB_BITS <= n /\ x[i] # 0
                       \/ i = n \div LIMB_BITS + 1
                            /\ x[i] % 2^(n % LIMB_BITS) # 0]

\* x \div d and x % d for a divisor with d * BASE within the integers: long
\* division from the highest limb down
BigDivMod(x, d) ==
    LET v7 == x[7]
        v6 == (v7 % d) * BASE + x[6]
        v5 == (v6 % d) * BASE + x[5]
        v4 == (v5 % d) * BASE + x[4]
        v3 == (v4 % d) * BASE + x[3]
        v2 == (v3 % d) * BASE + x[2]
        v1 == (v2 % d) * BASE + x[1]
        down == <<v7 \div d, v6 \div d, v5 \div d, v4 \div d, v3 \div d,
                  v2 \div d, v1 \div d>>
    IN [quot |-> <<down[7], down[6], down[5], down[4], down[3], down[2], down[1]>>,
        rem  |-> v1 % d]

\* the limb of the leading bit of x > 0
TopLimb(x) ==
    CHOOSE h \in 1..LIMBS : x[h] # 0 /\ \A j \in (h + 1)..LIMBS : x[j] = 0

\* the bits of a limb 0 < v < BASE
LimbBits(v) == CHOOSE n \in 1..LIMB_BITS : 2^(n - 1) <= v /\ v < 2^n

\* the bits of x > 0
BigBits(x) == (TopLimb(x) - 1) * LIMB_BITS + LimbBits(x[TopLimb(x)])

\* m * 2^e as a float64, for a significand rounded to m <= 2^SIGNIFICAND:
\* a significand rounded up to 2^SIGNIFICAND moves to the exponent
F64Carry(m, e) ==
    IF BigLess(m, BigPow2(SIGNIFICAND)) THEN [m |-> m, e |-> e]
    ELSE [m |-> BigPow2(SIGNIFICAND - 1), e |-> e + 1]

\* the float64 nearest (low.quot + f) * 2^(e - 1), ties to even, for
\* low.quot of SIGNIFICAND + 1 bits and 0 <= f < 1, f > 0 exactly when
\* low.sticky: the last bit of low.quot is the half, and it rounds up when
\* something lies below it or the bit above it is odd
F64Nearest(low, e) ==
    IF low.sticky \/ (low.quot[1] \div 2) % 2 = 1
    THEN F64Carry(BigShr(BigMulAdd(low.quot, 1, 1), 1, FALSE).quot, e)
    ELSE F64Carry(BigShr(low.quot, 1, FALSE).quot, e)

\* the float64 nearest (t + f) * 2^e, ties to even, for t of more than
\* SIGNIFICAND bits and 0 <= f < 1, f > 0 exactly when `sticky`
F64Round(t, sticky, e) ==
    LET drop == BigBits(t) - SIGNIFICAND
    IN F64Nearest(BigShr(t, drop - 1, sticky), e + drop)

\* the float64 a decimal literal n / d stands for, 0 < n and 0 < d < 2^17:
\* the quotient of n * 2^(SIGNIFICAND + 17) by d has bits to round on
F64Ratio(n, d) ==
    LET qr == BigDivMod(BigShl(BigOf(n), SIGNIFICAND + 17), d)
    IN F64Round(qr.quot, qr.rem # 0, 0 - (SIGNIFICAND + 17))

\* bits of the root made in one step
DIGIT_BITS == 7

\* (2 * root * 2^DIGIT_BITS + digit) * digit: what the digit takes off the
\* remainder
DigitTerm(root, digit) ==
    BigMulAdd(BigMulAdd(root, 2 * 2^DIGIT_BITS, digit), digit, 0)

\* the largest digit below 2^DIGIT_BITS whose term the remainder can pay
\* for: the terms grow with the digit, so it is the number of digits above 0
\* that can be paid for
RootDigit(root, rem) ==
    Cardinality({ digit \in 1..(2^DIGIT_BITS - 1) :
                    ~BigLess(rem, DigitTerm(root, digit)) })

RECURSIVE F64SqrtFrom(_, _, _)
\* one more digit of the root per step: root^2 + rem is the radicand times
\* 4^(-e), until the root has more bits than the significand
F64SqrtFrom(root, rem, e) ==
    IF ~BigLess(root, BigPow2(SIGNIFICAND)) THEN F64Round(root, ~BigIsZero(rem), e)
    ELSE LET scaled == BigShl(rem, 2 * DIGIT_BITS)
             digit  == RootDigit(root, scaled)
         IN F64SqrtFrom(BigMulAdd(root, 2^DIGIT_BITS, digit),
                        BigSub(scaled, DigitTerm(root, digit)),
                        e - DIGIT_BITS)

\* np.sqrt of an integer n > 0 (line 123): correctly rounded
F64Sqrt(n) ==
    LET r == IsqrtBetween(n, 0, 46340)
    IN F64SqrtFrom(BigOf(r), BigOf(n - r * r), 0)

\* x + y for x, y > 0, rounded: the significand of the larger exponent is
\* shifted onto the smaller exponent
F64Add(x, y) ==
    IF x.e >= y.e THEN F64Round(BigAdd(BigShl(x.m, x.e - y.e), y.m), FALSE, y.e)
    ELSE F64Round(BigAdd(BigShl(y.m, y.e - x.e), x.m), FALSE, x.e)

\* x <= y for x, y > 0
F64LessEq(x, y) == x.e < y.e \/ (x.e = y.e /\ ~BigLess(y.m, x.m))

\* x / d for d a power of 2: exact
F64Over(x, d) == [m |-> x.m, e |-> x.e - (CHOOSE n \in 0..30 : 2^n = d)]

\* line 123: the gap in yards of a radicand in steps^2
gap_yards(radicand) == F64Over(F64Sqrt(radicand), GRID)

\* lines 47 and 55: the threshold in yards; the radicand WRAP_UP_GAP stands
\* for the literal 1.8
limit_yards(limit_gap) ==
    IF limit_gap <= WRAP_UP_GAP THEN F64Ratio(18, 10) ELSE gap_yards(limit_gap)

\* lines 49 and 57, as the floats decide it
float_within_tolerance(gap, limit_gap) ==
    F64LessEq(gap_yards(gap),
              F64Add(limit_yards(limit_gap), F64Ratio(1, GAP_EPS_INV)))

\* lines 49 and 57, "gap <= gap_for_contact + 1e-5" on radicands a = gap and
\* b = limit_gap >= WRAP_UP_GAP.  Rounding is monotone, so a <= b passes.
\* With k = a - b > 0 and q = 2 / (1e-5 yard in steps), in real numbers
\*   sqrt(a) <= sqrt(b) + 2/q  <=>  m >= 16/q^2,  m = 16 b - (k q)^2 + 8 k
\* and 0 < 16/q^2 < 1.  With q^2 = 16 Q + R, m = 16 d - R k^2 + 8 k for
\* d = b - Q k^2: m < 0 when d < 0 and m > 7 k^2 when d > k^2.  The two
\* sides are m / (k^2 q^3) steps apart, to first order; the two roots and
\* the sum are rounded by at most half a unit in the last place each,
\* 1.5 * 2^-37 steps together for radicands within the integers, which is
\* m = k^2 / 3.  Where 2 |m| > k^2 the real test is the float test; in
\* between the floats decide.  Q k^2 is beyond the integers, and with it
\* every b that passes, from k = 60 on.
within_tolerance(gap, limit_gap) ==
    LET k == gap - limit_gap
        q == (2 * GAP_EPS_INV) \div GRID
        d == limit_gap - ((q * q) \div 16) * (k * k)
        m == 16 * d - ((q * q) % 16) * (k * k) + 8 * k
    IN IF k <= 0 THEN TRUE
       ELSE IF k > IsqrtBetween(2147483647 \div ((q * q) \div 16), 0, 46340) THEN FALSE
       ELSE IF d < 0 THEN FALSE
       ELSE IF d > k * k THEN TRUE
       ELSE IF 2 * m <= k * k /\ 2 * (0 - m) <= k * k
            THEN float_within_tolerance(gap, limit_gap)
       ELSE m >= 1

(***************************************************************************)
(* _get_tackle_window_data (nfl_bdb24.py:20-61)                            *)
(***************************************************************************)
\* a raised exception, as the outcome of a call
Raise(kind) == [status |-> kind, tackleFrameId |-> 0, contactFrameId |-> 0]

\* line 61: pd.Series([tackle_frame_id, contact_frame_id])
TackleWindow(t, c) == [status |-> "ok", tackleFrameId |-> t, contactFrameId |-> c]

\* gap_hist_df.loc[gap_hist_df.event == ev]
RowsWithEvent(df, ev) == SelectSeq(df, LAMBDA r: r.event = ev)

\* line 33: the boolean index of the 3 seconds of frames before the tackle
idx_contact_window(r, tackle_frame_id) ==
    /\ r.frameId >= Max(1, tackle_frame_id - WINDOW_FRAMES)
    /\ r.frameId < tackle_frame_id

\* variant of first_contact_in_window: the label anywhere in the play
FirstContactInWindowAnywhere(df, tackle_frame_id) ==
    RowsWithEvent(df, "first_contact") # <<>>

\* line 36: is a first_contact event inside the contact window?
first_contact_in_window(df, tackle_frame_id) ==
    SelectSeq(df, LAMBDA r: idx_contact_window(r, tackle_frame_id)
                            /\ r.event = "first_contact") # <<>>

\* variant of first_contact_ser: the last first_contact row
LastContactSer(df) ==
    LET fc == RowsWithEvent(df, "first_contact") IN fc[Len(fc)]

\* line 38: the first first_contact row of the whole frame, in row order
first_contact_ser(df) == Head(RowsWithEvent(df, "first_contact"))

\* line 41: is the label trusted at this gap?
first_contact_reliable(gap_at_first_contact) ==
    gap_at_first_contact < FIRST_CONTACT_GAP

\* lines 46-47 and 54-55: min() of an empty selection is NaN, and Python's
\* max(1.8, nan) is 1.8
gap_for_contact(df, tackle_frame_id) ==
    LET in_window == SelectSeq(df, LAMBDA r: idx_contact_window(r, tackle_frame_id))
    IN IF in_window = <<>> THEN WRAP_UP_GAP
       ELSE Max(WRAP_UP_GAP, SeqMin(Column(in_window, "gap")))

\* lines 49 and 57: the rows of the window at or below the contact threshold
below_threshold(df, tackle_frame_id) ==
    LET limit == gap_for_contact(df, tackle_frame_id)
    IN SelectSeq(df, LAMBDA r: idx_contact_window(r, tackle_frame_id)
                               /\ within_tolerance(r.gap, limit))

\* variant of contact_data: .iloc[0] without the sort
ContactDataUnsorted(rows) == Head(rows)

\* lines 49 and 57: .sort_values('frameId', ascending=True).iloc[0]
contact_data(rows) == Head(SortByFrameId(rows))

\* variant of threshold_search: with no row at or below the threshold the
\* tackle frame stands in for the contact frame
ThresholdSearchOrTackle(df, tackle_frame_id) ==
    LET rows == below_threshold(df, tackle_frame_id)
    IN IF rows = <<>> THEN TackleWindow(tackle_frame_id, tackle_frame_id)
       ELSE TackleWindow(tackle_frame_id, contact_data(rows).frameId)

\* lines 44-50 and 52-58: the threshold search, the same code in both places
threshold_search(df, tackle_frame_id) ==
    LET rows == below_threshold(df, tackle_frame_id)
    IN IF rows = <<>> THEN Raise("IndexError")
       ELSE TackleWindow(tackle_frame_id, contact_data(rows).frameId)

\* variant of tackle_data: the last row of the play stands in for a missing
\* tackle row
TackleDataOrLastRow(df) ==
    LET rows == RowsWithEvent(df, "tackle")
    IN IF rows # <<>> THEN <<Head(rows)>>
       ELSE IF df = <<>> THEN <<>> ELSE <<df[Len(df)]>>

\* lines 29-30: .iloc[0] of the tackle rows, as a sequence of one row; it is
\* empty when no row is a tackle row, where .iloc[0] raises IndexError
tackle_data(df) ==
    LET rows == RowsWithEvent(df, "tackle")
    IN IF rows = <<>> THEN <<>> ELSE <<Head(rows)>>

_get_tackle_window_data(gap_hist_df) ==
    IF tackle_data(gap_hist_df) = <<>> THEN Raise("IndexError")
    ELSE
      LET tackle_frame_id == tackle_data(gap_hist_df)[1].frameId
      IN IF first_contact_in_window(gap_hist_df, tackle_frame_id)
         THEN IF first_contact_reliable(first_contact_ser(gap_hist_df).gap)
              THEN TackleWindow(tackle_frame_id, first_contact_ser(gap_hist_df).frameId)
              ELSE threshold_search(gap_hist_df, tackle_frame_id)
         ELSE threshold_search(gap_hist_df, tackle_frame_id)

(***************************************************************************)
(* Fixed-point square root and quotient                                    *)
(***************************************************************************)
RECURSIVE RootFraction(_, _, _, _)
\* the largest p in lo..hi with (q + p/GridStep)^2 <= q^2 + rem, that is
\* p^2 / GridStep <= GridStep * rem - 2 p q, by bisection
RootFraction(q, rem, lo, hi) ==
    IF lo = hi THEN lo
    ELSE LET p == (lo + hi + 1) \div 2
         IN IF (p * p + GridStep - 1) \div GridStep <= GridStep * rem - 2 * p * q
            THEN RootFraction(q, rem, p, hi)
            ELSE RootFraction(q, rem, lo, p - 1)

\* np.sqrt of a squared length in steps^2, in micro-yards, rounded down:
\* floor(GridStep * sqrt(d2))
FixSqrt(d2) ==
    LET q == IsqrtBetween(d2, 0, 46340)
    IN GridStep * q + RootFraction(q, d2 - q * q, 0, GridStep - 1)

RECURSIVE DivDigits(_, _, _, _)
DivDigits(q, rem, b, k) ==
    IF k = 0 THEN q
    ELSE DivDigits(10 * q + ((rem * 10) \div b), (rem * 10) % b, b, k - 1)

\* a / b for a >= 0, b > 0 with six decimals, rounded down: floor(10^6 * a / b)
FixDiv(a, b) == DivDigits(a \div b, a % b, b, 6)

\* 10^6 * sin of 0, 1, ..., 90 degrees, rounded
SineTable ==
    << 0, 17452, 34899, 52336, 69756, 87156, 104528,
       121869, 139173, 156434, 173648, 190809, 207912, 224951,
       241922, 258819, 275637, 292372, 309017, 325568, 342020,
       358368, 374607, 390731, 406737, 422618, 438371, 453990,
       469472, 484810, 500000, 515038, 529919, 544639, 559193,
       573576, 587785, 601815, 615661, 629320, 642788, 656059,
       669131, 681998, 694658, 707107, 719340, 731354, 743145,
       754710, 766044, 777146, 788011, 798636, 809017, 819152,
       829038, 838671, 848048, 857167, 866025, 874620, 882948,
       891007, 898794, 906308, 913545, 920505, 927184, 933580,
       939693, 945519, 951057, 956305, 961262, 965926, 970296,
       974370, 978148, 981627, 984808, 987688, 990268, 992546,
       994522, 996195, 997564, 998630, 999391, 999848, 1000000 >>

\* np.sin(np.deg2rad(dir)) for dir in whole degrees, times 10^6, rounded
SinDeg(dir) ==
    LET a == dir % 360
    IN IF a <= 90 THEN SineTable[a + 1]
       ELSE IF a <= 180 THEN SineTable[180 - a + 1]
       ELSE IF a <= 270 THEN 0 - SineTable[a - 180 + 1]
       ELSE 0 - SineTable[360 - a + 1]

\* a nonnegative a times b over c, rounded down, when a * b is beyond
\* the integers
MulDiv(a, b, c) == (a \div c) * b + ((a % c) * b) \div c

\* lines 124-125: s * sin(dir) in micro-yards/s, s in 0.01 yard/s, rounded
\* toward 0
s_downfield(s_col, dir) ==
    IF SinDeg(dir) >= 0 THEN (s_col * SinDeg(dir)) \div 100
    ELSE 0 - ((s_col * (0 - SinDeg(dir))) \div 100)

RECURSIVE Concat(_)
\* the rows of a sequence of frames, one after the other
Concat(ss) == IF ss = <<>> THEN <<>> ELSE ss[1] \o Concat(Tail(ss))

(***************************************************************************)
(* Reference tables (plays.csv, players.csv)                               *)
(***************************************************************************)
CARRIER == 1
TACKLER == 2
ASSIST == 3

\* plays.csv: one row per play, with its ball carrier
play_df ==
    << [gameId |-> 1, playId |-> 1, ballCarrierId |-> CARRIER],
       [gameId |-> 1, playId |-> 2, ballCarrierId |-> CARRIER] >>

\* players.csv: the weight of a player, in lbs; the second defender is not
\* listed
player_df ==
    << [nflId |-> CARRIER, weight |-> 200],
       [nflId |-> TACKLER, weight |-> 300] >>

\* a missing value (NaN) in the weight column after the left merge
NaNWeight == 0 - 1

(***************************************************************************)
(* _get_tackle_components_vs_time (nfl_bdb24.py:67-131)                    *)
(***************************************************************************)
\* lines 94-96 and 108-110: .merge(player_df[['nflId','weight']], how='left')
merge_weight(df, players) ==
    Concat([i \in 1..Len(df) |->
        LET hits == SelectSeq(players, LAMBDA p: p.nflId = df[i].nflId)
        IN IF hits = <<>>
           THEN << [df[i] EXCEPT !.weight = NaNWeight] >>
           ELSE [j \in 1..Len(hits) |-> [df[i] EXCEPT !.weight = hits[j].weight]] ])

\* a tracking row with a weight column to fill
WithWeight(r) ==
    [gameId |-> r.gameId, playId |-> r.playId, nflId |-> r.nflId,
     frameId |-> r.frameId, x |-> r.x, y |-> r.y, s |-> r.s, dir |-> r.dir,
     dis |-> r.dis, event |-> r.event, playDirection |-> r.playDirection,
     weight |-> NaNWeight]

\* lines 86-99: the tracking rows of the play's ball carrier, in track_df order
ballcarrier_df(track, plays, players) ==
    merge_weight(
        Concat([i \in 1..Len(track) |->
            LET hits == SelectSeq(plays, LAMBDA p:
                            /\ p.gameId = track[i].gameId
                            /\ p.playId = track[i].playId
                            /\ p.ballCarrierId = track[i].nflId)
            IN [j \in 1..Len(hits) |-> WithWeight(track[i])] ]),
        players)

\* lines 102-113: the tracking rows of the players flagged tackle == 1
tackler_df(track, tackles, players) ==
    merge_weight(
        Concat([i \in 1..Len(track) |->
            LET hits == SelectSeq(tackles, LAMBDA t:
                            /\ t.tackle = 1
                            /\ t.gameId = track[i].gameId
                            /\ t.playId = track[i].playId
                            /\ t.nflId = track[i].nflId)
            IN [j \in 1..Len(hits) |-> WithWeight(track[i])] ]),
        players)

\* lines 123-128: one row of the output, from a carrier row and a tackler
\* row; gap is the radicand of line 123
GapSample(c, t) ==
    [frameId |-> c.frameId,
     event |-> c.event,
     gap |-> (c.x - t.x) * (c.x - t.x) + (c.y - t.y) * (c.y - t.y),
     s |-> c.s,
     s_downfield |-> s_downfield(c.s, c.dir),
     weight |-> c.weight,
     s_downfield_t |-> s_downfield(t.s, t.dir),
     weight_t |-> t.weight,
     dis_t |-> t.dis,
     x_t |-> t.x,
     y_t |-> t.y]

\* variant of outcome_df: a carrier row that no tackler row matches is kept
\* (a left join), with the carrier's own columns where the tackler's belong
OutcomeLeftJoin(carrier, tackler) ==
    Concat([i \in 1..Len(carrier) |->
        LET hits == SelectSeq(tackler, LAMBDA t:
                        /\ t.gameId = carrier[i].gameId
                        /\ t.playId = carrier[i].playId
                        /\ t.frameId = carrier[i].frameId)
        IN IF hits = <<>>
           THEN << GapSample(carrier[i], carrier[i]) >>
           ELSE [j \in 1..Len(hits) |-> GapSample(carrier[i], hits[j])] ])

\* lines 117-129: inner merge of carrier and tackler on (gameId, playId, frameId)
outcome_df(carrier, tackler) ==
    Concat([i \in 1..Len(carrier) |->
        LET hits == SelectSeq(tackler, LAMBDA t:
                        /\ t.gameId = carrier[i].gameId
                        /\ t.playId = carrier[i].playId
                        /\ t.frameId = carrier[i].frameId)
        IN [j \in 1..Len(hits) |-> GapSample(carrier[i], hits[j])] ])

\* lines 81-82: the play direction of the first row is "right"
play_direction_ok(track) == track[1].playDirection = "right"

\* lines 79-83; gameId and playId of the first row are read for the error
\* message only, and nothing compares the other rows' keys with them
_get_tackle_components_vs_time(track, plays, tackles, players) ==
    IF track = <<>> THEN [status |-> "IndexError", df |-> <<>>]
    ELSE IF ~play_direction_ok(track) THEN [status |-> "ValueError", df |-> <<>>]
    ELSE [status |-> "ok",
          df |-> outcome_df(ballcarrier_df(track, plays, players),
                            tackler_df(track, tackles, players))]

(***************************************************************************)
(* prep_get_tackle_metrics (nfl_bdb24.py:135-206)                          *)
(***************************************************************************)
\* np.nan, a number, and the infinity of a float division by zero
NaN == [kind |-> "nan", val |-> 0]

Num(v) == [kind |-> "num", val |-> v]

Inf == [kind |-> "inf", val |-> 0]

\* comp_df.loc[frame_id]: the rows whose index (frameId) is frame_id
Loc(df, frame_id) == SelectSeq(df, LAMBDA r: r.frameId = frame_id)

\* variant of path_start_frame_id: the path starts at the contact frame
PathStartAtContact(contact_frame_id) == contact_frame_id

\* line 158: start 3 seconds before contact, never before frame 1
path_start_frame_id(contact_frame_id) == Max(1, contact_frame_id - WINDOW_FRAMES)

\* variant of d_actual: the row at the path start counted in
DActualFromPathStart(df, contact_frame_id) ==
    GridStep * SeqSum(Column(
        SelectSeq(df, LAMBDA r: /\ r.frameId >= path_start_frame_id(contact_frame_id)
                                /\ r.frameId <= contact_frame_id),
        "dis_t"))

\* lines 159-160: the distance the tackler travelled, in micro-yards
d_actual(df, contact_frame_id) ==
    GridStep * SeqSum(Column(
        SelectSeq(df, LAMBDA r: /\ r.frameId > path_start_frame_id(contact_frame_id)
                                /\ r.frameId <= contact_frame_id),
        "dis_t"))

\* lines 161-162: the straight line between the rows at path start and contact
d_ideal(at_start, at_contact) ==
    FixSqrt((at_contact.x_t - at_start.x_t) * (at_contact.x_t - at_start.x_t)
            + (at_contact.y_t - at_start.y_t) * (at_contact.y_t - at_start.y_t))

\* variant of d_eff without the test of line 164: a float division by zero
\* gives inf, and 0/0 gives nan
DEffUnguarded(ideal, actual) ==
    IF actual = 0
    THEN IF ideal = 0 THEN NaN ELSE Inf
    ELSE Num(FixDiv(ideal, actual))

\* lines 164-167: no lead-up, no efficiency rating
d_eff(ideal, actual) ==
    IF actual = 0 THEN NaN ELSE Num(FixDiv(ideal, actual))

\* line 172: the carrier's downfield speed after a fully inelastic
\* collision; a weight that is NaN, or 0 / 0, makes it NaN
s_downfield_neutral(s_downfield_contact, w_carrier, w_tackler) ==
    IF w_carrier = NaNWeight \/ w_tackler = NaNWeight THEN NaN
    ELSE IF w_carrier + w_tackler = 0 THEN NaN
    ELSE IF s_downfield_contact >= 0
    THEN Num(MulDiv(s_downfield_contact, w_carrier, w_carrier + w_tackler))
    ELSE Num(0 - MulDiv(0 - s_downfield_contact, w_carrier, w_carrier + w_tackler))

\* line 174: the speed the frame before the tackle, less the neutral speed
s_downfield_delta(s_downfield_tackle_m1, neutral) ==
    IF neutral = NaN THEN NaN ELSE Num(s_downfield_tackle_m1 - neutral.val)

\* lines 153-206, given the gap series and the detected frames.  A .loc of
\* a frame id that no row has raises KeyError.  A frame id that several rows
\* have makes .loc return a Series and the fields of the record Series too:
\* that outcome is kept apart as "non_scalar", with no scalar record.
tackle_metrics(df, tackle_frame_id, contact_frame_id) ==
    LET at_contact == Loc(df, contact_frame_id)
        at_start == Loc(df, path_start_frame_id(contact_frame_id))
        at_tackle_m1 == Loc(df, tackle_frame_id - 1)
        at_tackle == Loc(df, tackle_frame_id)
        looked_up == <<at_contact, at_start, at_tackle_m1, at_tackle>>
    IN IF \E i \in 1..4 : looked_up[i] = <<>>
       THEN [status |-> "KeyError", rec |-> <<>>]
       ELSE IF \E i \in 1..4 : Len(looked_up[i]) > 1
       THEN [status |-> "non_scalar", rec |-> <<>>]
       ELSE
         LET actual == d_actual(df, contact_frame_id)
             ideal == d_ideal(at_start[1], at_contact[1])
             w_carrier == df[1].weight
             w_tackler == df[1].weight_t
         IN [status |-> "ok",
             rec |-> << [contactFrameId |-> contact_frame_id,
                         tackleFrameId |-> tackle_frame_id,
                         frames |-> tackle_frame_id - contact_frame_id,
                         d_actual |-> actual,
                         d_ideal |-> ideal,
                         d_eff |-> d_eff(ideal, actual),
                         gap_tackle |-> FixSqrt(at_tackle[1].gap),
                         w_carrier |-> w_carrier,
                         w_tackler |-> w_tackler,
                         s_downfield_delta |->
                             s_downfield_delta(
                                 at_tackle_m1[1].s_downfield,
                                 s_downfield_neutral(at_contact[1].s_downfield,
                                                     w_carrier, w_tackler)),
                         s_contact |-> at_contact[1].s] >>]

(***************************************************************************)
(* The steps of prep_get_tackle_metrics.  pc is the position in the call:  *)
(* "start", "components" (line 147 done), "window" (lines 150-153 done),   *)
(* "done" (the record is returned), or "failed_components",                *)
(* "failed_window", "failed_metrics" (an exception left the call there),   *)
(* or "non_scalar" (several rows share a frame id and what the call makes  *)
(* of them is followed no further).                                        *)
(***************************************************************************)
NoWindow == Raise("none")

\* line 147
GetComponents ==
    /\ pc = "start"
    /\ LET out == _get_tackle_components_vs_time(track_df, play_df, tackle_df, player_df)
       IN IF out.status = "ok"
          THEN /\ comp_df' = out.df
               /\ pc' = "components"
               /\ err' = ""
          ELSE /\ comp_df' = <<>>
               /\ pc' = "failed_components"
               /\ err' = out.status
    /\ UNCHANGED <<track_df, tackle_df, window, record, out_df, given_df>>

\* lines 150-153
GetWindowData ==
    /\ pc = "components"
    /\ LET out == _get_tackle_window_data(comp_df)
       IN IF out.status = "ok"
          THEN /\ window' = out
               /\ pc' = "window"
               /\ err' = ""
          ELSE /\ window' = NoWindow
               /\ pc' = "failed_window"
               /\ err' = out.status
    /\ UNCHANGED <<track_df, tackle_df, comp_df, record, out_df, given_df>>

\* lines 158-206
GetMetrics ==
    /\ pc = "window"
    /\ LET out == tackle_metrics(comp_df, window.tackleFrameId, window.contactFrameId)
       IN IF out.status = "ok"
          THEN /\ record' = out.rec
               /\ pc' = "done"
               /\ err' = ""
          ELSE IF out.status = "non_scalar"
          THEN /\ record' = <<>>
               /\ pc' = "non_scalar"
               /\ err' = ""
          ELSE /\ record' = <<>>
               /\ pc' = "failed_metrics"
               /\ err' = out.status
    /\ UNCHANGED <<track_df, tackle_df, comp_df, window, out_df, given_df>>

(***************************************************************************)
(* Inputs of the pipeline: the tracking rows of a play                     *)
(***************************************************************************)
\* the most frames a play holds
MaxFrames == 3

\* frame ids near the start of the play, and two more than WINDOW_FRAMES later
FrameIds == {1, 2, 3, 33, 34}

EventLabels == {NA, "first_contact", "tackle"}

\* where the tackler stands: 77 steps (1.2 yards) and 320 steps (5.0 yards)
\* from the carrier
TacklerSpots == { [x |-> 3277, y |-> 1600], [x |-> 3392, y |-> 1856] }

\* the tackler's dis column, in steps
TacklerSteps == {0, 38}

FrameChoices ==
    [frameId : FrameIds, event : EventLabels, spot : TacklerSpots, dis : TacklerSteps]

RECURSIVE AscendingPlays(_)
\* the plays of at most n frames, frames in ascending order
AscendingPlays(n) ==
    IF n = 0 THEN { <<>> }
    ELSE LET shorter == AscendingPlays(n - 1)
         IN shorter \cup
            { Append(p, c) : <<p, c>> \in
                { pc2 \in shorter \X FrameChoices :
                    /\ Len(pc2[1]) = n - 1
                    /\ (pc2[1] = <<>> \/ pc2[2].frameId > pc2[1][Len(pc2[1])].frameId) } }

\* what is wrong with the table handed over, if anything
Anomalies == {"none", "all_left", "last_left", "two_plays"}

CarrierRow(play_id, c, direction) ==
    [gameId |-> 1, playId |-> play_id, nflId |-> CARRIER, frameId |-> c.frameId,
     x |-> 3200, y |-> 1600, s |-> 500, dir |-> 90, dis |-> 32,
     event |-> c.event, playDirection |-> direction]

TacklerRow(play_id, c, direction) ==
    [gameId |-> 1, playId |-> play_id, nflId |-> TACKLER, frameId |-> c.frameId,
     x |-> c.spot.x, y |-> c.spot.y, s |-> 400, dir |-> 270, dis |-> c.dis,
     event |-> c.event, playDirection |-> direction]

\* a frame of another play of the same game
OtherPlayFrame ==
    [frameId |-> 4, event |-> NA, spot |-> [x |-> 3277, y |-> 1600], dis |-> 38]

\* the tracking file's order: by player, then by frame
TrackTable(play, anomaly) ==
    LET direction == IF anomaly = "all_left" THEN "left" ELSE "right"
        rows == [i \in 1..Len(play) |-> CarrierRow(1, play[i], direction)]
                \o [i \in 1..Len(play) |-> TacklerRow(1, play[i], direction)]
    IN IF anomaly = "last_left" /\ rows # <<>>
       THEN [rows EXCEPT ![Len(rows)].playDirection = "left"]
       ELSE IF anomaly = "two_plays"
       THEN rows \o << CarrierRow(2, OtherPlayFrame, "right"),
                       TacklerRow(2, OtherPlayFrame, "right") >>
       ELSE rows

\* tackles.csv: the credited tackler of each play, and an assist
TackleTable ==
    << [gameId |-> 1, playId |-> 1, nflId |-> TACKLER, tackle |-> 1],
       [gameId |-> 1, playId |-> 1, nflId |-> ASSIST, tackle |-> 0],
       [gameId |-> 1, playId |-> 2, nflId |-> TACKLER, tackle |-> 1] >>

Init ==
    /\ \E play \in AscendingPlays(MaxFrames), anomaly \in Anomalies :
           track_df = TrackTable(play, anomaly)
    /\ tackle_df = TackleTable
    /\ comp_df = <<>>
    /\ window = NoWindow
    /\ record = <<>>
    /\ out_df = <<>>
    /\ given_df = track_df
    /\ pc = "start"
    /\ err = ""

Next == GetComponents \/ GetWindowData \/ GetMetrics

Spec == Init /\ [][Next]_vars

(***************************************************************************)
(* Inputs of the detector alone: a gap series in any row order             *)
(***************************************************************************)
\* the most rows a gap series holds
MaxRows == 3

\* the radicands of 77 steps (1.2 yards), of 192 steps (3.0 yards), and two
\* next to each other at 12.2 yards, whose gaps are 1e-5 yard apart
GapValues == { 77 * 77, 192 * 192, 610352, 610353 }

GapRows == [frameId : FrameIds, event : EventLabels, gap : GapValues]

RECURSIVE GapSeries(_)
\* the series of at most n rows, one row per frame id, in every row order
GapSeries(n) ==
    IF n = 0 THEN { <<>> }
    ELSE LET shorter == GapSeries(n - 1)
         IN shorter \cup
            { Append(sr[1], sr[2]) : sr \in
                { sr \in shorter \X GapRows :
                    /\ Len(sr[1]) = n - 1
                    /\ \A i \in 1..Len(sr[1]) : sr[1][i].frameId # sr[2].frameId } }

\* the orders the rows of a frame can come in
RowOrders(df) ==
    { [i \in 1..Len(df) |-> df[perm[i]]] :
        perm \in { q \in [1..Len(df) -> 1..Len(df)] :
                     \A a, b \in 1..Len(df) : q[a] = q[b] => a = b } }

\* two radicands at 48.8 yards, four apart.  In real numbers the larger gap
\* lies beyond the smaller gap plus 1e-5 yard, by less than the spacing of the
\* floats there, and the float sum of the smaller gap and 1e-5 rounds onto
\* the larger gap
TieGaps == << 9765623, 9765627 >>

\* a play of two frames at those gaps and a tackle, in every row order
TieSeries ==
    UNION { RowOrders(<< [frameId |-> 1, event |-> ev, gap |-> TieGaps[2]],
                         [frameId |-> 2, event |-> NA, gap |-> TieGaps[1]],
                         [frameId |-> 3, event |-> "tackle", gap |-> 77 * 77] >>) :
            ev \in {NA, "first_contact"} }

InitWindow ==
    /\ track_df = <<>>
    /\ tackle_df = <<>>
    /\ \/ \E shorter \in GapSeries(MaxRows - 1) :
              \/ comp_df = shorter
              \/ \E r \in GapRows :
                     /\ \A i \in 1..Len(shorter) : shorter[i].frameId # r.frameId
                     /\ comp_df = Append(shorter, r)
       \/ comp_df \in TieSeries
    /\ window = NoWindow
    /\ record = <<>>
    /\ out_df = <<>>
    /\ given_df = track_df
    /\ pc = "components"
    /\ err = ""

NextWindow == GetWindowData

SpecWindow == InitWindow /\ [][NextWindow]_vars

(***************************************************************************)
(* What the properties below read off a state, stated on the rows of      *)
(* comp_df directly (sets and indices), not through the operators above    *)
(***************************************************************************)
\* the call of _get_tackle_window_data has ended, by return or by exception
WindowCallEnded == pc \in {"window", "failed_window"}

HasEvent(ev) == \E i \in 1..Len(comp_df) : comp_df[i].event = ev

\* the first row, in row order, that carries the label
FirstRowWith(ev) ==
    comp_df[CHOOSE i \in 1..Len(comp_df) :
                /\ comp_df[i].event = ev
                /\ \A j \in 1..(i - 1) : comp_df[j].event # ev]

TackleFrame == FirstRowWith("tackle").frameId

WindowStart == IF TackleFrame - 30 > 1 THEN TackleFrame - 30 ELSE 1

InWindow(frame_id) == WindowStart <= frame_id /\ frame_id < TackleFrame

WindowRows == { i \in 1..Len(comp_df) : InWindow(comp_df[i].frameId) }

FirstContactRows == { i \in 1..Len(comp_df) : comp_df[i].event = "first_contact" }

\* the smallest gap of the window, and the contact threshold made from it
MinGapInWindow ==
    CHOOSE g \in { comp_df[i].gap : i \in WindowRows } :
        \A i \in WindowRows : g <= comp_df[i].gap

Threshold == IF MinGapInWindow > WRAP_UP_GAP THEN MinGapInWindow ELSE WRAP_UP_GAP

\* the earliest frame of the window at or below the threshold, within 1e-5
SearchFrame ==
    LET hits == { comp_df[i].frameId : i \in
                    { k \in WindowRows : within_tolerance(comp_df[k].gap, Threshold) } }
    IN CHOOSE f \in hits : \A h \in hits : f <= h

(***************************************************************************)
(* Contact detection                                                       *)
(***************************************************************************)
\* C1: whenever _get_tackle_window_data returns, the contact frame it
\* returns is not after the tackle frame it returns.
C1_ContactNotAfterTackle ==
    pc = "window" => window.contactFrameId <= window.tackleFrameId

\* C3 as stated: a first_contact row anywhere in the play whose gap (at the
\* first such row) is below 3 yards is returned as the contact frame.
C3_FirstContactAnywhere ==
    (WindowCallEnded /\ HasEvent("tackle") /\ HasEvent("first_contact")
        /\ FirstRowWith("first_contact").gap < FIRST_CONTACT_GAP)
    => (pc = "window"
        /\ window.contactFrameId = FirstRowWith("first_contact").frameId)

\* C3 amended: when some first_contact row lies inside the window and the
\* gap at the first first_contact row of the series is below 3 yards, that
\* first row's frame is returned as the contact frame, with the tackle
\* frame of the first tackle row.
C3_FirstContactInWindow ==
    (WindowCallEnded /\ HasEvent("tackle")
        /\ FirstContactRows \cap WindowRows # {}
        /\ FirstRowWith("first_contact").gap < FIRST_CONTACT_GAP)
    => (pc = "window"
        /\ window.tackleFrameId = TackleFrame
        /\ window.contactFrameId = FirstRowWith("first_contact").frameId)

\* the direct use took a first_contact row that is itself outside the window
\* and that the threshold search would not have chosen
C3_Witness ==
    /\ pc = "window"
    /\ HasEvent("tackle")
    /\ FirstContactRows \cap WindowRows # {}
    /\ FirstRowWith("first_contact").gap < FIRST_CONTACT_GAP
    /\ ~InWindow(FirstRowWith("first_contact").frameId)
    /\ window.contactFrameId = FirstRowWith("first_contact").frameId
    /\ window.contactFrameId # SearchFrame

\* C4: with no first_contact row, or with a gap of 3 yards or more at the
\* first first_contact row, a window that holds a row always yields a
\* result, and the contact frame is the earliest frame of the window whose
\* gap is at most max(1.8, minGap) + 1e-5.
C4_ThresholdSearch ==
    (WindowCallEnded /\ HasEvent("tackle") /\ WindowRows # {}
        /\ (~HasEvent("first_contact")
            \/ FirstRowWith("first_contact").gap >= FIRST_CONTACT_GAP))
    => (pc = "window"
        /\ window.tackleFrameId = TackleFrame
        /\ window.contactFrameId = SearchFrame)

\* a trip: the threshold is relaxed to the window's minimum, two rows of the
\* window reach it, the earliest row of the window does not, and the rows
\* are not in frame order
C4_Witness ==
    /\ pc = "window"
    /\ HasEvent("tackle")
    /\ ~HasEvent("first_contact")
    /\ Cardinality(WindowRows) >= 2
    /\ MinGapInWindow > WRAP_UP_GAP
    /\ window.contactFrameId = SearchFrame
    /\ \E i, j \in WindowRows :
          /\ i < j
          /\ comp_df[i].frameId > comp_df[j].frameId
          /\ within_tolerance(comp_df[i].gap, Threshold)
          /\ within_tolerance(comp_df[j].gap, Threshold)
          /\ comp_df[i].gap # comp_df[j].gap

\* C5 as stated: a first_contact label at a frame after the tackle frame
\* makes contact detection fail.
C5_LateFirstContactFails ==
    (WindowCallEnded /\ HasEvent("tackle") /\ HasEvent("first_contact")
        /\ \A i \in FirstContactRows : comp_df[i].frameId > TackleFrame)
    => pc = "failed_window"

\* C5 amended: a first_contact label that occurs only at frames after the
\* tackle frame is ignored.  Detection returns what the threshold search
\* finds, a contact frame before the tackle frame, whenever the window holds
\* a row, and fails only when the window is empty.
C5_LateFirstContactIgnored ==
    (WindowCallEnded /\ HasEvent("tackle") /\ HasEvent("first_contact")
        /\ \A i \in FirstContactRows : comp_df[i].frameId > TackleFrame)
    => IF WindowRows = {}
       THEN pc = "failed_window"
       ELSE /\ pc = "window"
            /\ window.contactFrameId = SearchFrame
            /\ window.contactFrameId < window.tackleFrameId

\* a trusted-looking label (gap below 3 yards) after the tackle, and a result
C5_Witness ==
    /\ pc = "window"
    /\ HasEvent("tackle")
    /\ HasEvent("first_contact")
    /\ \A i \in FirstContactRows : comp_df[i].frameId > TackleFrame
    /\ FirstRowWith("first_contact").gap < FIRST_CONTACT_GAP
    /\ window.contactFrameId < window.tackleFrameId

\* C10: the outcome of contact detection is the same for every order of the
\* rows of the series, several rows with the same label included.
C10_RowOrderIndependent ==
    WindowCallEnded =>
        \A other \in RowOrders(comp_df) :
            LET out == _get_tackle_window_data(other)
            IN IF pc = "window" THEN out = window ELSE out.status # "ok"

(***************************************************************************)
(* The metrics record and the checks of the input                          *)
(***************************************************************************)
\* the start of the pursuit path for the detected contact frame
PathStart ==
    IF window.contactFrameId - 30 > 1 THEN window.contactFrameId - 30 ELSE 1

RECURSIVE DisTravelled(_)
\* dis_t, in steps, of the first i rows that lie in (PathStart, contact]
DisTravelled(i) ==
    IF i = 0 THEN 0
    ELSE DisTravelled(i - 1)
         + (IF /\ PathStart < comp_df[i].frameId
               /\ comp_df[i].frameId <= window.contactFrameId
            THEN comp_df[i].dis_t ELSE 0)

\* C2: when no row of the gap series is a tackle row, contact detection
\* fails and no record is made; a record that is returned has the frame of
\* the first tackle row as its tackle frame.
C2_NoTackleNoRecord ==
    /\ (pc \in {"window", "done", "failed_window", "failed_metrics"}
            /\ ~HasEvent("tackle"))
       => (pc = "failed_window" /\ err = "IndexError"
           /\ window = NoWindow /\ record = <<>>)
    /\ record # <<>>
       => (HasEvent("tackle") /\ record[1].tackleFrameId = TackleFrame)

\* a series with rows and a first_contact label but no tackle label
C2_Witness ==
    /\ pc = "failed_window"
    /\ Len(comp_df) >= 2
    /\ HasEvent("first_contact")
    /\ ~HasEvent("tackle")
    /\ record = <<>>

\* C6 as stated: d_eff of a returned record is a number above 0 or the
\* undefined marker.
C6_DEffPositiveOrUndefined ==
    pc = "done" =>
        \/ record[1].d_eff = NaN
        \/ (record[1].d_eff.kind = "num" /\ record[1].d_eff.val > 0)

\* C6 amended: d_eff of a returned record is the undefined marker or a
\* finite number that is at least 0, made with a d_actual above 0; it is 0
\* exactly when d_ideal is 0; it is never infinity.
C6_DEffNonNegativeOrUndefined ==
    pc = "done" =>
        \/ record[1].d_eff = NaN
        \/ /\ record[1].d_eff.kind = "num"
           /\ record[1].d_eff.val >= 0
           /\ record[1].d_actual > 0
           /\ (record[1].d_eff.val = 0 <=> record[1].d_ideal = 0)

\* the tackler is at the same spot at path start and at contact, after moving
C6_Witness ==
    /\ pc = "done"
    /\ record[1].d_eff = Num(0)
    /\ record[1].d_ideal = 0
    /\ record[1].d_actual > 0
    /\ record[1].contactFrameId > PathStart

\* C7: d_actual is the sum of dis_t over the frames in (pathStart, contact];
\* when it is 0, as it is when the contact frame is the path start, d_eff is
\* the undefined marker; otherwise d_eff is d_ideal / d_actual.
C7_DEffUndefinedWithoutLeadUp ==
    pc = "done" =>
        LET actual == GridStep * DisTravelled(Len(comp_df))
        IN /\ record[1].d_actual = actual
           /\ (window.contactFrameId = PathStart => actual = 0)
           /\ IF actual = 0
              THEN record[1].d_eff = NaN
              ELSE record[1].d_eff = Num(FixDiv(record[1].d_ideal, actual))

\* contact at the path start, where the row at the path start has a dis_t
C7_Witness ==
    /\ pc = "done"
    /\ window.contactFrameId = PathStart
    /\ \E i \in 1..Len(comp_df) :
          comp_df[i].frameId = PathStart /\ comp_df[i].dis_t > 0
    /\ record[1].d_actual = 0
    /\ record[1].d_eff = NaN

\* C8: a table with any row whose playDirection is not "right" makes
\* _get_tackle_components_vs_time fail, and no gap series is made.
C8_AnyRowNotRightFails ==
    (pc # "start"
        /\ \E i \in 1..Len(track_df) : track_df[i].playDirection # "right")
    => (pc = "failed_components" /\ comp_df = <<>>)

\* C9: a table whose rows span more than one (gameId, playId) makes
\* _get_tackle_components_vs_time fail with an invalid-input error.
C9_SeveralPlaysFail ==
    (pc # "start"
        /\ Cardinality({ <<track_df[i].gameId, track_df[i].playId>> :
                            i \in 1..Len(track_df) }) > 1)
    => (pc = "failed_components" /\ err = "ValueError")

(***************************************************************************)
(* transform_tracking_data (nflutil.py:101-134).  With inplace=False       *)
(* track_df stays as it is and out_df is the returned copy; with           *)
(* inplace=True the rows of track_df are rewritten and None is returned.   *)
(* Here x and y are in hundredths of a yard, as the tracking files give    *)
(* them, o and dir in hundredths of a degree; the float error of 53.3 - y  *)
(* (below 1e-13 yard) is not represented, and no test reads x, y, o, dir.  *)
(***************************************************************************)
\* nflutil.py:14, FIELD_SIZE_X = 120.0 yards, in hundredths
FIELD_SIZE_X == 12000

\* nflutil.py:15, FIELD_SIZE_Y = 53.3 yards, in hundredths
FIELD_SIZE_Y == 5330

\* nflutil.py:125-126, the half turn and the full turn, in hundredths of a degree
HALF_TURN == 18000

FULL_TURN == 36000

\* variant of i_left: every row is taken for a row moving left
ILeftEveryRow(r) == TRUE

\* line 117: the rows of plays moving to the left
i_left(r) == r.playDirection = "left"

\* variant of mirror_row: the direction label is left as it was (no line 129)
MirrorRowKeepLabel(r) ==
    [r EXCEPT !.x = FIELD_SIZE_X - r.x,
              !.y = FIELD_SIZE_Y - r.y,
              !.o = (r.o + HALF_TURN) % FULL_TURN,
              !.dir = (r.dir + HALF_TURN) % FULL_TURN]

\* lines 120-129: what is assigned to a row of the i_left selection
mirror_row(r) ==
    [r EXCEPT !.x = FIELD_SIZE_X - r.x,
              !.y = FIELD_SIZE_Y - r.y,
              !.o = (r.o + HALF_TURN) % FULL_TURN,
              !.dir = (r.dir + HALF_TURN) % FULL_TURN,
              !.playDirection = "right"]

\* lines 111-134, the frame returned
transform_tracking_data(df) ==
    [i \in 1..Len(df) |-> IF i_left(df[i]) THEN mirror_row(df[i]) ELSE df[i]]

\* out_df = transform_tracking_data(track_df): lines 113-114 copy the table,
\* line 134 returns the copy
TransformOnce ==
    /\ pc = "start"
    /\ out_df' = transform_tracking_data(track_df)
    /\ pc' = "once"
    /\ UNCHANGED <<track_df, tackle_df, comp_df, window, record, given_df, err>>

\* out_df = transform_tracking_data(out_df), the transform applied again
TransformAgain ==
    /\ pc = "once"
    /\ out_df' = transform_tracking_data(out_df)
    /\ pc' = "twice"
    /\ UNCHANGED <<track_df, tackle_df, comp_df, window, record, given_df, err>>

\* transform_tracking_data(track_df, inplace=True): lines 111-112 make
\* out_df the table itself, lines 131-132 return None, no frame
TransformInPlace ==
    /\ pc = "start"
    /\ track_df' = transform_tracking_data(track_df)
    /\ pc' = "once_inplace"
    /\ UNCHANGED <<tackle_df, comp_df, window, record, out_df, given_df, err>>

\* the in-place call made again on the same table
TransformInPlaceAgain ==
    /\ pc = "once_inplace"
    /\ track_df' = transform_tracking_data(track_df)
    /\ pc' = "twice_inplace"
    /\ UNCHANGED <<tackle_df, comp_df, window, record, out_df, given_df, err>>

\* the most rows of a table handed to the transform
MaxTrackRows == 2

\* x, y in hundredths of a yard: a goal line, mid-field, a sideline spot and spots off centre
FieldXs == {1000, 6000, 8550}

FieldYs == {0, 2665, 4000}

\* o and dir, in hundredths of a degree
Angles == {0, 9000, 27050}

TrackingRows ==
    [x : FieldXs, y : FieldYs, o : Angles, dir : Angles,
     playDirection : {"left", "right"}]

InitTransform ==
    /\ \E n \in 0..MaxTrackRows : track_df \in [1..n -> TrackingRows]
    /\ tackle_df = <<>>
    /\ comp_df = <<>>
    /\ window = NoWindow
    /\ record = <<>>
    /\ out_df = <<>>
    /\ given_df = track_df
    /\ pc = "start"
    /\ err = ""

NextTransform ==
    TransformOnce \/ TransformAgain \/ TransformInPlace \/ TransformInPlaceAgain

SpecTransform == InitTransform /\ [][NextTransform]_vars

(***************************************************************************)
(* Direction normalisation                                                 *)
(***************************************************************************)
\* the rows the call leaves: the returned copy, or the table itself after
\* an in-place call
Transformed == IF pc \in {"once", "twice"} THEN out_df ELSE track_df

AppliedOnce == pc \in {"once", "once_inplace"}

AppliedTwice == pc \in {"twice", "twice_inplace"}

\* C12 as stated: the transform applied twice gives every row that moved
\* left its original x, y, o and dir back.
C12_TwiceRestoresLeftRows ==
    AppliedTwice =>
        \A i \in 1..Len(given_df) :
            given_df[i].playDirection = "left" =>
                /\ Transformed[i].x = given_df[i].x
                /\ Transformed[i].y = given_df[i].y
                /\ Transformed[i].o = given_df[i].o
                /\ Transformed[i].dir = given_df[i].dir

\* C12 amended: the transform applied twice leaves every row that moved left
\* mirrored once and labelled "right": x is 120 - x, y is 53.3 - y, o and
\* dir are turned by 180 degrees modulo 360.
C12_TwiceMirrorsLeftRowsOnce ==
    AppliedTwice =>
        /\ Len(Transformed) = Len(given_df)
        /\ \A i \in 1..Len(given_df) :
              given_df[i].playDirection = "left" =>
                  /\ Transformed[i].x = 12000 - given_df[i].x
                  /\ Transformed[i].y = 5330 - given_df[i].y
                  /\ Transformed[i].o = (given_df[i].o + 18000) % 36000
                  /\ Transformed[i].dir = (given_df[i].dir + 18000) % 36000
                  /\ Transformed[i].playDirection = "right"

\* after two applications a row that moved left is somewhere else than at
\* the start, in x, y, o and dir
C12_Witness ==
    /\ pc = "twice"
    /\ \E i \in 1..Len(given_df) :
          /\ given_df[i].playDirection = "left"
          /\ out_df[i].playDirection = "right"
          /\ out_df[i].x # given_df[i].x
          /\ out_df[i].y # given_df[i].y
          /\ out_df[i].o # given_df[i].o
          /\ out_df[i].dir # given_df[i].dir

\* C13: the transform changes no field of a row whose playDirection is
\* already "right", whatever the other rows of the table are.
C13_RightRowsUnchanged ==
    (AppliedOnce \/ AppliedTwice) =>
        /\ Len(Transformed) = Len(given_df)
        /\ \A i \in 1..Len(given_df) :
              given_df[i].playDirection = "right" => Transformed[i] = given_df[i]

\* a table of a row moving right, off the centre of the field, kept as it
\* is by an in-place call, and a row moving left, mirrored
C13_Witness ==
    /\ pc = "once_inplace"
    /\ \E i, j \in 1..Len(given_df) :
          /\ given_df[i].playDirection = "right"
          /\ given_df[i].x # 6000
          /\ given_df[i].y # 2665
          /\ track_df[i] = given_df[i]
          /\ given_df[j].playDirection = "left"
          /\ track_df[j] # given_df[j]

(***************************************************************************)
(* Inputs of the join: the carrier's rows in any order, frames missing     *)
(* from either player, a second defender and who tackles.csv credits       *)
(***************************************************************************)
\* the most frames of a play handed to the join
MaxJoinFrames == 3

JoinFrames == 1..MaxJoinFrames

CarrierChoices == [frameId : JoinFrames, event : EventLabels]

RECURSIVE CarrierLineups(_)
\* the carrier's rows: at most n frames, one row per frame, in every order
CarrierLineups(n) ==
    IF n = 0 THEN { <<>> }
    ELSE LET shorter == CarrierLineups(n - 1)
         IN shorter \cup
            { Append(lc[1], lc[2]) : lc \in
                { lc \in shorter \X CarrierChoices :
                    /\ Len(lc[1]) = n - 1
                    /\ \A i \in 1..Len(lc[1]) : lc[1][i].frameId # lc[2].frameId } }

\* the frame ids of a set, ascending
AscendingFrames(frames) ==
    [i \in 1..Cardinality(frames) |->
        CHOOSE f \in frames : Cardinality({ g \in frames : g < f }) = i - 1]

\* the event column is the same for every player of a frame
EventOfFrame(lineup, frame_id) ==
    IF \E i \in 1..Len(lineup) : lineup[i].frameId = frame_id
    THEN lineup[CHOOSE i \in 1..Len(lineup) : lineup[i].frameId = frame_id].event
    ELSE NA

\* the tackler keeps 77 steps from the carrier, the second defender 320
DefenderRows(lineup, frames, nfl_id, spot) ==
    LET ids == AscendingFrames(frames)
    IN [i \in 1..Len(ids) |->
          [TacklerRow(1, [frameId |-> ids[i],
                          event |-> EventOfFrame(lineup, ids[i]),
                          spot |-> spot, dis |-> 38], "right")
             EXCEPT !.nflId = nfl_id]]

\* the frames the second defender has rows for
AssistFrameSets == { {}, {1}, JoinFrames }

JoinTrackTable(lineup, tackler_frames, assist_frames) ==
    [i \in 1..Len(lineup) |-> CarrierRow(1, lineup[i], "right")]
    \o DefenderRows(lineup, tackler_frames, TACKLER, [x |-> 3277, y |-> 1600])
    \o DefenderRows(lineup, assist_frames, ASSIST, [x |-> 3392, y |-> 1856])

\* tackles.csv with one player credited, with two, and with none
TackleTables ==
    { TackleTable,
      << [gameId |-> 1, playId |-> 1, nflId |-> TACKLER, tackle |-> 1],
         [gameId |-> 1, playId |-> 1, nflId |-> ASSIST, tackle |-> 1] >>,
      << [gameId |-> 1, playId |-> 1, nflId |-> TACKLER, tackle |-> 0],
         [gameId |-> 1, playId |-> 1, nflId |-> ASSIST, tackle |-> 0] >> }

InitJoin ==
    /\ \E lineup \in CarrierLineups(MaxJoinFrames),
          tackler_frames \in SUBSET JoinFrames,
          assist_frames \in AssistFrameSets :
           track_df = JoinTrackTable(lineup, tackler_frames, assist_frames)
    /\ tackle_df \in TackleTables
    /\ comp_df = <<>>
    /\ window = NoWindow
    /\ record = <<>>
    /\ out_df = <<>>
    /\ given_df = track_df
    /\ pc = "start"
    /\ err = ""

SpecJoin == InitJoin /\ [][Next]_vars

(***************************************************************************)
(* The join, read off track_df and tackle_df                               *)
(***************************************************************************)
\* the frames the play's ball carrier has a tracking row for
CarrierFrames ==
    { track_df[i].frameId : i \in
        { k \in 1..Len(track_df) : track_df[k].nflId = CARRIER } }

\* the players tackles.csv flags with tackle == 1
CreditedIds ==
    { tackle_df[k].nflId : k \in
        { j \in 1..Len(tackle_df) : tackle_df[j].tackle = 1 } }

\* the frames a credited tackler has a tracking row for
CreditedFrames ==
    { track_df[i].frameId : i \in
        { k \in 1..Len(track_df) : track_df[k].nflId \in CreditedIds } }

RowsOfFrame(frame_id) == { i \in 1..Len(comp_df) : comp_df[i].frameId = frame_id }

\* the builder has returned a gap series
ComponentsMade == pc \in {"components", "window", "done", "failed_window",
                          "failed_metrics", "non_scalar"}

\* C11: the gap series has exactly one row for every frame id that both the
\* carrier's rows and the credited tackler's rows have, and none for a frame
\* id that either lacks, whoever tackles.csv flags with tackle == 1.
C11_OneRowPerSharedFrame ==
    ComponentsMade =>
        \A f \in JoinFrames :
            Cardinality(RowsOfFrame(f))
                = (IF f \in CarrierFrames \cap CreditedFrames THEN 1 ELSE 0)

\* C14: when the table has no row of the ball carrier or no row of a
\* credited tackler, the gap series is empty and the call ends with an
\* exception, in the builder or in the contact detection, and no record.
C14_EmptyJoinFails ==
    (pc # "start" /\ (CarrierFrames = {} \/ CreditedFrames = {}))
    => /\ comp_df = <<>>
       /\ record = <<>>
       /\ window = NoWindow
       /\ \/ pc = "components"
          \/ pc = "failed_window" /\ err = "IndexError"
          \/ pc = "failed_components" /\ err = "IndexError" /\ track_df = <<>>

\* the carrier is tracked through first contact and tackle, and nobody is
\* tracked who is credited with the tackle
C14_Witness ==
    /\ pc = "failed_window"
    /\ err = "IndexError"
    /\ \E i, j \in 1..Len(track_df) :
          /\ track_df[i].nflId = CARRIER /\ track_df[i].event = "tackle"
          /\ track_df[j].nflId = CARRIER /\ track_df[j].event = "first_contact"
    /\ CreditedFrames = {}
    /\ comp_df = <<>>
    /\ record = <<>>

\* C16: in a returned record d_actual is the sum of dis_t over the frames in
\* (pathStart, contact], d_ideal is the straight line between the tackler's
\* spots at pathStart and at contact, and frames is tackle - contact, which
\* is at least 0.
C16_PathAndFrames ==
    pc = "done" =>
        /\ record[1].d_actual = GridStep * DisTravelled(Len(comp_df))
        /\ \E i, j \in 1..Len(comp_df) :
              /\ comp_df[i].frameId = PathStart
              /\ comp_df[j].frameId = window.contactFrameId
              /\ record[1].d_ideal
                   = FixSqrt((comp_df[j].x_t - comp_df[i].x_t)
                               * (comp_df[j].x_t - comp_df[i].x_t)
                             + (comp_df[j].y_t - comp_df[i].y_t)
                               * (comp_df[j].y_t - comp_df[i].y_t))
        /\ record[1].frames = window.tackleFrameId - window.contactFrameId
        /\ record[1].frames >= 0

(***************************************************************************)
(* The frames the metrics look up                                          *)
(***************************************************************************)
HasFrame(frame_id) == RowsOfFrame(frame_id) # {}

\* the call has gone through the metrics, to a record or to an exception
MetricsCallEnded == pc \in {"done", "failed_metrics"}

\* C15 as stated: rows at the contact frame and at the tackle frame are all
\* the metrics need; with both a record is returned, and the metrics fail
\* only when one of the two has no row.
C15_ContactAndTackleRowsSuffice ==
    MetricsCallEnded =>
        (pc = "done" <=> (HasFrame(window.contactFrameId)
                          /\ HasFrame(window.tackleFrameId)))

\* C15 amended: on a gap series of one row per frame id the metrics return
\* a record exactly when the series has a row at each of contactFrameId,
\* tackleFrameId, pathStart = max(1, contactFrameId - 30) and
\* tackleFrameId - 1, and fail with KeyError when any of the four has none.
C15_FourFramesNeeded ==
    MetricsCallEnded =>
        /\ pc = "done" <=> (/\ HasFrame(window.contactFrameId)
                            /\ HasFrame(window.tackleFrameId)
                            /\ HasFrame(PathStart)
                            /\ HasFrame(window.tackleFrameId - 1))
        /\ pc = "failed_metrics" => (err = "KeyError" /\ record = <<>>)

\* contact, tackle and the frame before the tackle have rows, the frame
\* 30 before contact has none
C15_Witness ==
    /\ pc = "failed_metrics"
    /\ err = "KeyError"
    /\ HasFrame(window.contactFrameId)
    /\ HasFrame(window.tackleFrameId)
    /\ HasFrame(window.tackleFrameId - 1)
    /\ PathStart > 1
    /\ ~HasFrame(PathStart)

\* C17: when the series has a tackle row and no row in the window
\* [max(1, t-30), t), _get_tackle_window_data ends with IndexError and
\* returns no frames; the tackle frame never stands in for the contact frame.
C17_EmptyWindowFails ==
    (WindowCallEnded /\ HasEvent("tackle") /\ WindowRows = {})
    => (pc = "failed_window" /\ err = "IndexError" /\ window = NoWindow)

\* a tackle row after frame 1, a first_contact row that is not before it
\* within 30 frames, and no row in the window
C17_Witness ==
    /\ pc = "failed_window"
    /\ HasEvent("tackle")
    /\ TackleFrame > 1
    /\ HasEvent("first_contact")
    /\ Len(comp_df) >= 2
    /\ WindowRows = {}

====
